---- MODULE Spec2Model ----
(***************************************************************************)
(* Eris: remote control of Netflix playback.                               *)
(*                                                                         *)
(* The model has three layers.                                             *)
(*   - The player adapter of eris-extension/src/netflix.ts: back, forward, *)
(*     pause, play, seek, volume, status, metadata, player, as operators   *)
(*     over the state of the Netflix page (the session ids, the Cadmium    *)
(*     player object, the "player-blocked-play" button).                   *)
(*   - The extension's runtime around the adapter (poll timer, command     *)
(*     handlers, reconnect before report), as the README describes it.     *)
(*   - The SignalR hub of Eris.Server and the remote controls, as the      *)
(*     README describes them.                                              *)
(*                                                                         *)
(* Times are integer milliseconds.  A volume is a JavaScript number, a     *)
(* double: the double nearest to a fraction num / den in 0..1, kept with    *)
(* that fraction; status() computes on the double, bit by bit.             *)
(***************************************************************************)
EXTENDS Integers, Sequences, FiniteSets, TLC

VARIABLES
    sessionIds,   \* getAllPlayerSessionIds(): the page's player session ids
    cadmium,      \* state of the video player of the "watch-" session
    blockedPlay,  \* whether [data-uia="player-blocked-play"] is in the DOM
    ret,          \* the last adapter call and what it did
    prev,         \* the adapter call before that
    live,         \* the clients whose transport to the hub is up
    held,         \* hub: the connections it keeps through an outage of their
                  \* transport, for a stateful reconnect
    posted,       \* commands sent to the server over HTTP, not yet published
    inbox,        \* per connection: messages sent by the hub, not yet handled
    sent,         \* per sender: how many messages it has sent
    seen,         \* per recipient and sender: number of the last message handled
    produced,     \* the status snapshots the extension sent, by number
    rendered,     \* per remote control: the status it shows
    renders,      \* per remote control: how many reports it has shown
    lastGood,     \* extension: the last status it read successfully
    cycle,        \* extension: what its last finished handler run did (a
                  \* record for the properties of the runtime)
    wire,         \* reports the extension has sent, not yet published by the hub
    pending       \* extension: the tick handlers waiting for their reconnect
                  \* attempt, each with the attempts it has made

pageVars == <<sessionIds, cadmium, blockedPlay>>
callVars == <<ret, prev>>
hubVars ==
    <<live, held, posted, inbox, sent, seen, produced, rendered, renders>>
agentVars == <<lastGood, cycle, wire, pending>>
vars == <<sessionIds, cadmium, blockedPlay, ret, prev, live, held, posted,
          inbox, sent, seen, produced, rendered, renders, lastGood, cycle,
          wire, pending>>

(***************************************************************************)
(* Bounds of the model.                                                    *)
(***************************************************************************)
MaxSkips == 2      \* the player's time stays within MaxSkips skips of 0..duration
MaxSends == 3      \* messages sent in a run, commands and status reports
MaxWire == 2       \* reports on their way to the hub at one time
MaxInbox == 2      \* messages waiting in one connection's inbox
MaxPending == 1    \* tick handlers waiting for a reconnect at one time

VolDen == 10000    \* the decimal volumes are k / VolDen
VolBits == 7       \* the binary volumes are k / 2^VolBits


null == [null |-> TRUE]

\* The hub's peers: the extension in the Netflix tab and a remote control.
Agent == "a1"
Controllers == {"c1"}
Connections == {Agent} \cup Controllers

Min(a, b) == IF a < b THEN a ELSE b
Max(a, b) == IF a > b THEN a ELSE b

(***************************************************************************)
(* netflix.ts                                                              *)
(***************************************************************************)
skip == 30 * 1000

\* sessionId.startsWith("watch-")
StartsWithWatch(sessionId) ==
    Len(sessionId) >= 6 /\ SubSeq(sessionId, 1, 6) = "watch-"

\* player(): the player of the first session whose id starts with "watch-";
\* with no such session the filter's [0] is undefined and so is the player.
player(ids) ==
    LET watch == SelectSeq(ids, StartsWithWatch)
    IN  IF Len(watch) = 0
        THEN [defined |-> FALSE, sessionId |-> "undefined"]
        ELSE [defined |-> TRUE, sessionId |-> watch[1]]

\* What an adapter call did: whether it threw, the player and the button
\* after it, and the positions it passed to the player's seek.
Threw(cad, blocked) ==
    [threw |-> TRUE, cadmium |-> cad, blocked |-> blocked, seeks |-> <<>>,
     clicked |-> FALSE]
Done(cad, blocked, seeks, clicked) ==
    [threw |-> FALSE, cadmium |-> cad, blocked |-> blocked, seeks |-> seeks,
     clicked |-> clicked]

\* The player's own seek.  The player is Netflix's: it either takes the
\* requested position as it is or clamps it into 0..duration.
PlayerSeek(cad, position, clamps) ==
    [cad EXCEPT !.time = IF clamps THEN Max(0, Min(position, cad.duration))
                         ELSE position]

backClamped(ids, cad, blocked, clamps) ==
    IF ~player(ids).defined THEN Threw(cad, blocked)
    ELSE Done(PlayerSeek(cad, Max(0, cad.time - skip), clamps), blocked,
              <<Max(0, cad.time - skip)>>, FALSE)

back(ids, cad, blocked, clamps) ==
    IF ~player(ids).defined THEN Threw(cad, blocked)
    ELSE Done(PlayerSeek(cad, cad.time - skip, clamps), blocked,
              <<cad.time - skip>>, FALSE)

forward(ids, cad, blocked, clamps) ==
    IF ~player(ids).defined THEN Threw(cad, blocked)
    ELSE Done(PlayerSeek(cad, cad.time + skip, clamps), blocked,
              <<cad.time + skip>>, FALSE)

pause(ids, cad, blocked) ==
    IF ~player(ids).defined THEN Threw(cad, blocked)
    ELSE Done([cad EXCEPT !.playing = FALSE], blocked, <<>>, FALSE)

\* play(): with the blocked-play button in the DOM the button is clicked and
\* the player is not touched by the adapter; the click dismisses the button
\* and, when there is a player, starts playback.
play(ids, cad, blocked) ==
    IF blocked
    THEN Done([cad EXCEPT !.playing = @ \/ player(ids).defined], FALSE, <<>>, TRUE)
    ELSE IF ~player(ids).defined THEN Threw(cad, blocked)
         ELSE Done([cad EXCEPT !.playing = TRUE], blocked, <<>>, FALSE)

seek(ids, cad, blocked, position, clamps) ==
    IF ~player(ids).defined THEN Threw(cad, blocked)
    ELSE Done(PlayerSeek(cad, position, clamps), blocked, <<position>>, FALSE)

\* volume(vol): vol goes to the player's setVolume unchanged.
volume(ids, cad, blocked, vol) ==
    IF ~player(ids).defined THEN Threw(cad, blocked)
    ELSE Done([cad EXCEPT !.vol = vol], blocked, <<>>, FALSE)

(***************************************************************************)
(* getVideoMetadataByVideoId: the page's metadata cache.  Video 1 is a     *)
(* movie, video 2 an episode of a show, any other id is not loaded.        *)
(* getVideo()._video is the title's record, getCurrentVideo()._video the   *)
(* record of the episode being played.                                     *)
(***************************************************************************)
VideoIds == {1, 2, 3}

getVideoMetadataByVideoId(videoId) ==
    CASE videoId = 1 ->
           [loaded |-> TRUE,
            video |-> [type |-> "movie", title |-> "Heat", artwork |-> "heat-art",
                       boxart |-> "heat-box", storyart |-> "heat-story",
                       synopsis |-> "A heist."],
            currentVideo |-> [seq |-> 0, title |-> "Heat", thumbs |-> "heat-thumbs",
                              stills |-> "heat-stills", synopsis |-> "A heist."]]
      [] videoId = 2 ->
           [loaded |-> TRUE,
            video |-> [type |-> "show", title |-> "Dark", artwork |-> "dark-art",
                       boxart |-> "dark-box", storyart |-> "dark-story",
                       synopsis |-> "A town."],
            currentVideo |-> [seq |-> 3, title |-> "Past and Present",
                              thumbs |-> "e3-thumbs", stills |-> "e3-stills",
                              synopsis |-> "A cave."]]
      [] OTHER -> [loaded |-> FALSE, video |-> null, currentVideo |-> null]

\* The six fields every Metadata value has, and the episode of a show.
CommonOf(video) ==
    [type |-> video.type, title |-> video.title, artwork |-> video.artwork,
     boxart |-> video.boxart, storyart |-> video.storyart,
     synopsis |-> video.synopsis]

EpisodeOf(currentVideo) ==
    [seq |-> currentVideo.seq, title |-> currentVideo.title,
     thumbs |-> currentVideo.thumbs, stills |-> currentVideo.stills,
     synopsis |-> currentVideo.synopsis]

metadataEpisodeAlways(videoId) ==
    LET m == getVideoMetadataByVideoId(videoId)
    IN  IF ~m.loaded THEN [threw |-> TRUE, value |-> null]
        ELSE [threw |-> FALSE,
              value |-> CommonOf(m.video)
                          @@ [episode |-> EpisodeOf(m.currentVideo),
                              season |-> <<>>]]

\* metadata(videoId): throws when the page has no metadata for the id.  For a
\* show, data.episode is filled from the current video and data.season is {}.
metadata(videoId) ==
    LET m == getVideoMetadataByVideoId(videoId)
    IN  IF ~m.loaded THEN [threw |-> TRUE, value |-> null]
        ELSE LET video == m.video
                 type == video.type
                 data == CommonOf(video)
             IN  IF type = "show"
                 THEN [threw |-> FALSE,
                       value |-> data @@ [episode |-> EpisodeOf(m.currentVideo),
                                          season |-> <<>>]]
                 ELSE [threw |-> FALSE, value |-> data]

(***************************************************************************)
(* JavaScript numbers.  A binary number is its digits, the first of them   *)
(* 1, and top, the weight of the first digit: the value is the sum of      *)
(* bits[i] * 2^(top - i + 1).  A double has Precision digits; 0 has none.  *)
(***************************************************************************)
Precision == 53

Zero == [bits |-> <<>>, top |-> 0]

Bit(x, w) ==
    LET i == x.top - w + 1
    IN  IF i \in 1 .. Len(x.bits) THEN x.bits[i] ELSE 0

\* The value of a few digits, and the digits of a natural number below 2^30.
RECURSIVE IntOf(_)
IntOf(bits) ==
    IF Len(bits) = 0 THEN 0
    ELSE IF Len(bits) = 1 THEN bits[1]
         ELSE LET h == Len(bits) \div 2
              IN  IntOf(SubSeq(bits, 1, h)) * 2 ^ (Len(bits) - h)
                      + IntOf(SubSeq(bits, h + 1, Len(bits)))

Digits(n, len) == [i \in 1 .. len |-> (n \div 2 ^ (len - i)) % 2]

BinaryOf(n) ==
    Digits(n, CHOOSE l \in 0 .. 30 : n < 2 ^ l /\ (l = 0 \/ n >= 2 ^ (l - 1)))

\* The digits of bits * c + carry, for small c and carry, a word at a time.
Word == 2 ^ 20

RECURSIVE MulAdd(_, _, _)
MulAdd(bits, c, carry) ==
    IF Len(bits) <= 20 THEN BinaryOf(IntOf(bits) * c + carry)
    ELSE LET d == IntOf(SubSeq(bits, Len(bits) - 19, Len(bits))) * c + carry
         IN  MulAdd(SubSeq(bits, 1, Len(bits) - 20), c, d \div Word)
                 \o Digits(d % Word, 20)

\* Round to nearest, ties to even: x is exact but for the sticky flag, which
\* says that digits beyond those of x are not all 0.
RoundToDouble(x, sticky) ==
    LET kept == [i \in 1 .. Precision |->
                    IF i <= Len(x.bits) THEN x.bits[i] ELSE 0]
        guard == IF Len(x.bits) > Precision THEN x.bits[Precision + 1] ELSE 0
        rest == sticky \/ \E i \in Precision + 2 .. Len(x.bits) : x.bits[i] = 1
        up == guard = 1 /\ (rest \/ kept[Precision] = 1)
        carries(i) == \A j \in i + 1 .. Precision : kept[j] = 1
        more == [i \in 1 .. Precision |->
                    IF carries(i) THEN 1 - kept[i] ELSE kept[i]]
    IN  IF ~up THEN [bits |-> kept, top |-> x.top]
        ELSE IF \A j \in 1 .. Precision : kept[j] = 1
             THEN [bits |-> [i \in 1 .. Precision |-> IF i = 1 THEN 1 ELSE 0],
                   top |-> x.top + 1]
             ELSE [bits |-> more, top |-> x.top]

\* 2^e modulo den.
RECURSIVE PowMod(_, _)
PowMod(e, den) ==
    IF e = 0 THEN 1 % den
    ELSE LET h == PowMod(e \div 2, den)
         IN  (((h * h) % den) * (IF e % 2 = 1 THEN 2 ELSE 1)) % den

\* Long division: the first n digits of r / den, r < den, and what is left.
Expand(r, den, n) ==
    [bits |-> [i \in 1 .. n |-> (2 * ((r * PowMod(i - 1, den)) % den)) \div den],
     rem |-> (r * PowMod(n, den)) % den]

\* How many digits of r / den, 0 < r < den, come before its first 1.
LeadingZeros(r, den) ==
    CHOOSE z \in 0 .. 15 : r * 2 ^ z < den /\ r * 2 ^ (z + 1) >= den

\* The double nearest to num / den, 0 <= num <= den.
ToDouble(num, den) ==
    IF num = 0 THEN Zero
    ELSE IF num = den
         THEN [bits |-> [i \in 1 .. Precision |-> IF i = 1 THEN 1 ELSE 0],
               top |-> 0]
         ELSE LET z == LeadingZeros(num, den)
                  e == Expand(num * 2 ^ z, den, Precision + 1)
              IN  RoundToDouble([bits |-> e.bits, top |-> 0 - (z + 1)],
                                e.rem # 0)

\* A volume: the number nearest to num / den, with the fraction it is named by.
Vol(num, den) == [num |-> num, den |-> den, number |-> ToDouble(num, den)]

Volumes ==
    {Vol(k, 2 ^ VolBits) : k \in 0 .. 2 ^ VolBits}
        \cup {Vol(k, VolDen) : k \in 0 .. VolDen}

\* x * c as a real number, c a small positive integer.
Product(x, c) ==
    IF x.bits = <<>> THEN Zero
    ELSE LET p == MulAdd(x.bits, c, 0)
         IN  [bits |-> p, top |-> x.top + Len(p) - Len(x.bits)]

\* x * c as JavaScript computes it.
Times(x, c) == RoundToDouble(Product(x, c), FALSE)

\* The whole part of x, 0 <= x < 2^30.
Floor(x) ==
    IF x.bits = <<>> \/ x.top < 0 THEN 0
    ELSE IntOf([i \in 1 .. x.top + 1 |-> Bit(x, x.top - i + 1)])

MathTrunc(x) == Floor(x)

\* Math.round(x), x >= 0: the integer nearest to x, a half going up.
MathRound(x) == Floor(x) + Bit(x, 0 - 1)

statusReturnsError(ids, cad) ==
    IF ~player(ids).defined
    THEN [threw |-> FALSE, value |-> [error |-> "TypeError"]]
    ELSE LET md == metadata(cad.movieId)
         IN  IF md.threw THEN [threw |-> TRUE, value |-> null]
             ELSE [threw |-> FALSE,
                   value |-> [duration |-> cad.duration, elapsed |-> cad.time,
                              metadata |-> md.value, isPlaying |-> cad.playing,
                              volume |-> MathRound(Times(cad.vol.number, 100))]]

\* status(): throws when there is no player or no metadata.
status(ids, cad) ==
    IF ~player(ids).defined THEN [threw |-> TRUE, value |-> null]
    ELSE LET md == metadata(cad.movieId)
         IN  IF md.threw THEN [threw |-> TRUE, value |-> null]
             ELSE [threw |-> FALSE,
                   value |-> [duration |-> cad.duration, elapsed |-> cad.time,
                              metadata |-> md.value, isPlaying |-> cad.playing,
                              volume |-> MathRound(Times(cad.vol.number, 100))]]

StatusFields == {"duration", "elapsed", "metadata", "isPlaying", "volume"}
CommonFields == {"type", "title", "artwork", "boxart", "storyart", "synopsis"}

(***************************************************************************)
(* Calls of the adapter on a page, with what they did kept in ret.         *)
(***************************************************************************)
NoCall == [op |-> "none", threw |-> FALSE, before |-> null, seeks |-> <<>>,
           value |-> null]

Call(op, before, out) ==
    [op |-> op, threw |-> out.threw, before |-> before, seeks |-> out.seeks,
     value |-> null]

WatchPage == <<"motion-billboard-1", "watch-1">>

PageSessions ==
    {<<>>, WatchPage, <<"watch-81234567">>, <<"watch-">>, <<"watch">>,
     <<"Watch-1", "motion-billboard-1">>, <<"watch-3", "watch-1">>}

Duration == 60 * 1000

CallStatus ==
    /\ ret.op = "none"
    /\ LET r == status(sessionIds, cadmium)
       IN  ret' = [op |-> "status", threw |-> r.threw, before |-> cadmium,
                   seeks |-> <<>>, value |-> r.value]
    /\ prev' = ret
    /\ UNCHANGED <<pageVars, hubVars, agentVars>>

NoCycle ==
    [trigger |-> "none", applied |-> "none", wasConnected |-> FALSE,
     attempts |-> 0, connected |-> FALSE, reads |-> 0, readOk |-> FALSE,
     prior |-> null, reports |-> 0, body |-> null]

\* The value of cycle where the handler runs are not recorded.
Unrecorded == [trigger |-> "unrecorded"]

NoRelay ==
    /\ live = {}
    /\ held = {}
    /\ posted = {}
    /\ wire = <<>>
    /\ pending = <<>>
    /\ inbox = [c \in Connections |-> <<>>]
    /\ sent = [c \in Connections |-> 0]
    /\ seen = [c \in Connections |-> [s \in Connections |-> 0]]
    /\ produced = <<>>
    /\ rendered = [c \in Controllers |-> null]
    /\ renders = [c \in Controllers |-> 0]
    /\ lastGood = null

\* Every page with one volume, and the watch page with every volume.
InitStatus ==
    /\ \/ /\ sessionIds \in PageSessions
          /\ cadmium \in [time : {45000}, duration : {Duration},
                          playing : {TRUE}, vol : {Vol(1, 2)}, movieId : VideoIds]
       \/ /\ sessionIds = WatchPage
          /\ cadmium \in [time : {45000}, duration : {Duration},
                          playing : {TRUE}, vol : Volumes, movieId : VideoIds]
    /\ blockedPlay = FALSE
    /\ ret = NoCall
    /\ prev = NoCall
    /\ NoRelay
    /\ cycle = NoCycle

NextStatus == CallStatus

SpecStatus == InitStatus /\ [][NextStatus]_vars

\* n is an integer nearest to x >= 0; x is at a half when two are.
AtHalf(x) ==
    /\ Bit(x, 0 - 1) = 1
    /\ \A i \in 1 .. Len(x.bits) : (x.top - i + 1 < 0 - 1) => x.bits[i] = 0

Nearest(x, n) == n = MathRound(x) \/ (AtHalf(x) /\ n = Floor(x))

(***************************************************************************)
(* C8 (as claimed).  Whenever status() returns for a player volume v in    *)
(* [0,1], status().volume is an integer in 0..100 nearest to v * 100.      *)
(***************************************************************************)
VolumeNearest ==
    (ret.op = "status" /\ ~ret.threw) =>
        /\ ret.value.volume \in 0 .. 100
        /\ Nearest(Product(ret.before.vol.number, 100), ret.value.volume)

(***************************************************************************)
(* C8 (amended).  Whenever status() returns for a player volume v in       *)
(* [0,1], status().volume is an integer in 0..100.  It is v * 100 rounded  *)
(* to a nearest integer and not truncated (0.8732 gives 87), unless the    *)
(* multiplication of doubles rounds v * 100 up to a half: then it is the   *)
(* integer above that half, one more than the nearest integer.             *)
(***************************************************************************)
VolumeRounded ==
    (ret.op = "status" /\ ~ret.threw) =>
        LET v == ret.before.vol.number
            exact == Product(v, 100)
            n == ret.value.volume
        IN  /\ n \in 0 .. 100
            /\ \/ Nearest(exact, n)
               \/ /\ Nearest(exact, n - 1)
                  /\ ~AtHalf(exact)
                  /\ AtHalf(Times(v, 100))
                  /\ Floor(Times(v, 100)) = n - 1
            /\ ret.before.vol = Vol(8732, 10000) => n = 87

VolumeRoundedWitness ==
    /\ ret.op = "status" /\ ~ret.threw
    /\ ret.before.vol = Vol(150, 10000)
    /\ ret.value.volume = 2
    /\ ~Nearest(Product(ret.before.vol.number, 100), 2)

(***************************************************************************)
(* C9.  In every Metadata value status() returns, episode and season are   *)
(* present exactly when type is "show", no other field is added, and the   *)
(* six common fields are those of the video record (getVideo()._video) of  *)
(* the item being played.                                                  *)
(***************************************************************************)
MetadataShape ==
    (ret.op = "status" /\ ~ret.threw) =>
        LET md == ret.value.metadata
            video == getVideoMetadataByVideoId(ret.before.movieId).video
        IN  /\ ("episode" \in DOMAIN md) <=> (md.type = "show")
            /\ ("season" \in DOMAIN md) <=> (md.type = "show")
            /\ md.type \in {"movie", "show"}
            /\ CommonFields \subseteq DOMAIN md
            /\ DOMAIN md \subseteq CommonFields \cup {"episode", "season"}
            /\ \A f \in CommonFields : md[f] = video[f]

MetadataShapeWitness ==
    /\ ret.op = "status" /\ ~ret.threw
    /\ ret.value.metadata.type = "show"
    /\ ret.value.metadata.title = "Dark"
    /\ ret.value.metadata.episode.title = "Past and Present"
    /\ ret.value.metadata.season = <<>>

(***************************************************************************)
(* The skip commands called on a page whose player plays on in between.    *)
(***************************************************************************)
InitTimes == {0, 10 * 1000, 45 * 1000}
SeekPositions == {0, 120 * 1000}
Quantum == 15 * 1000

InWindow(cad) ==
    /\ cad.time >= 0 - MaxSkips * skip
    /\ cad.time <= cad.duration + MaxSkips * skip

InitSkip ==
    /\ sessionIds \in PageSessions
    /\ cadmium \in [time : InitTimes, duration : {Duration}, playing : {TRUE},
                    vol : {Vol(1, 1)}, movieId : {1}]
    /\ blockedPlay = FALSE
    /\ ret = NoCall
    /\ prev = NoCall
    /\ NoRelay
    /\ cycle = NoCycle

Applied(op, out) ==
    /\ InWindow(out.cadmium)
    /\ cadmium' = out.cadmium
    /\ blockedPlay' = out.blocked
    /\ ret' = Call(op, cadmium, out)
    /\ prev' = ret
    /\ UNCHANGED <<sessionIds, hubVars, agentVars>>

CallBack ==
    \E clamps \in BOOLEAN :
        Applied("back", back(sessionIds, cadmium, blockedPlay, clamps))

CallForward ==
    \E clamps \in BOOLEAN :
        Applied("forward", forward(sessionIds, cadmium, blockedPlay, clamps))

CallSeek ==
    \E position \in SeekPositions, clamps \in BOOLEAN :
        Applied("seek", seek(sessionIds, cadmium, blockedPlay, position, clamps))

\* Playback goes on between two calls.
Progress ==
    /\ player(sessionIds).defined
    /\ cadmium.playing
    /\ cadmium.time + Quantum <= cadmium.duration
    /\ cadmium' = [cadmium EXCEPT !.time = @ + Quantum]
    /\ ret' = [NoCall EXCEPT !.op = "progress"]
    /\ prev' = ret
    /\ UNCHANGED <<sessionIds, blockedPlay, hubVars, agentVars>>

NextSkip == CallBack \/ CallForward \/ CallSeek \/ Progress

SpecSkip == InitSkip /\ [][NextSkip]_vars

(***************************************************************************)
(* C10 (as claimed).  back() passes exactly one position to the player's   *)
(* seek, the current time less 30000 ms, and forward() exactly one, the    *)
(* current time plus 30000 ms, neither clamped into 0..duration.  So a     *)
(* forward() that follows a back(), with no playback progress and no other *)
(* call in between, asks for the time back() started from, and back()      *)
(* below 30000 ms asks for a negative position.                            *)
(***************************************************************************)
SkipRoundTrip ==
    /\ (ret.op = "back" /\ ~ret.threw) =>
           ret.seeks = <<ret.before.time - 30000>>
    /\ (ret.op = "forward" /\ ~ret.threw) =>
           ret.seeks = <<ret.before.time + 30000>>
    /\ (/\ ret.op = "forward" /\ ~ret.threw
        /\ prev.op = "back" /\ ~prev.threw) =>
           ret.seeks[1] = prev.before.time
    /\ (ret.op = "back" /\ ~ret.threw /\ ret.before.time < 30000) =>
           ret.seeks[1] < 0

(***************************************************************************)
(* C10 (amended).  back() passes exactly one position to the player's      *)
(* seek, the current time less 30000 ms, and forward() exactly one, the    *)
(* current time plus 30000 ms, neither clamped into 0..duration.  So a     *)
(* forward() that follows a back(), with no playback progress and no other *)
(* call in between, asks for the time back() started from if the player    *)
(* took the position back() asked for, and back() below 30000 ms asks for  *)
(* a negative position.                                                    *)
(***************************************************************************)
SkipBy30s ==
    /\ (ret.op = "back" /\ ~ret.threw) =>
           ret.seeks = <<ret.before.time - 30000>>
    /\ (ret.op = "forward" /\ ~ret.threw) =>
           ret.seeks = <<ret.before.time + 30000>>
    /\ (/\ ret.op = "forward" /\ ~ret.threw
        /\ prev.op = "back" /\ ~prev.threw
        /\ ret.before.time = prev.seeks[1]) =>
           ret.seeks[1] = prev.before.time
    /\ (ret.op = "back" /\ ~ret.threw /\ ret.before.time < 30000) =>
           ret.seeks[1] < 0

SkipBy30sWitness ==
    /\ ret.op = "forward" /\ ~ret.threw
    /\ prev.op = "back" /\ ~prev.threw
    /\ prev.before.time = 10000
    /\ prev.seeks = <<0 - 20000>>
    /\ ret.before.time = 0 - 20000
    /\ ret.seeks = <<10000>>

(***************************************************************************)
(* Eris.Server: the SignalR hub.  Commands come in over HTTP from a remote *)
(* control and are published on the hub; status reports come in from the   *)
(* extension.  The hub does not identify its clients: what it publishes    *)
(* goes to every client it holds a connection for.                         *)
(***************************************************************************)
\* Whether the run has a message left to send.
Budget(counts) ==
    LET Sum[S \in SUBSET Connections] ==
            IF S = {} THEN 0
            ELSE LET c == CHOOSE x \in S : TRUE IN counts[c] + Sum[S \ {c}]
    IN  Sum[Connections] < MaxSends

Msg(kind, from, seq, body) ==
    [kind |-> kind, from |-> from, seq |-> seq, body |-> body]

RecipientsOfRole(liveSet, heldSet, kind) ==
    IF kind = "command" THEN (liveSet \cup heldSet) \cap {Agent}
    ELSE (liveSet \cup heldSet) \cap Controllers

\* Whom a message goes to: every connection the hub has at the time,
\* whatever the message and whatever the client.  These are the clients
\* whose transport is up and those whose connection the hub keeps through an
\* outage for a stateful reconnect; a client whose connection is closed is
\* sent nothing.
Recipients(liveSet, heldSet, kind) == liveSet \cup heldSet

\* One connection's transport: messages leave it in the order they entered.
EnqueueFirst(q, m) == <<m>> \o q

Enqueue(q, m) == Append(q, m)

Broadcast(boxes, liveSet, heldSet, m) ==
    [c \in Connections |->
        IF c \in Recipients(liveSet, heldSet, m.kind) THEN Enqueue(boxes[c], m)
        ELSE boxes[c]]

Room(boxes, liveSet, heldSet) ==
    \A c \in liveSet \cup heldSet : Len(boxes[c]) < MaxInbox

\* A client connects: the extension's or a remote control's start, or
\* SignalR's automatic reconnect.  A connection the hub has kept goes on with
\* the messages buffered for it, those on their way when it dropped and
\* those published since; any other starts with none.
Connect(c) ==
    /\ c \notin live
    /\ live' = live \cup {c}
    /\ held' = held \ {c}
    /\ UNCHANGED <<pageVars, callVars, posted, inbox, sent, seen, produced,
                   rendered, renders, agentVars>>

\* A client's transport drops (tab suspended, network).  With stateful
\* reconnect the hub keeps the connection: the messages on their way to the
\* client, and those published during the outage, are buffered for its
\* reconnect.  Without it the connection is closed and they are lost.  A
\* report of the extension that is on its way to the hub is lost with the
\* connection unless it has arrived.
Disconnect(c) ==
    /\ c \in live
    /\ live' = live \ {c}
    /\ \E stateful \in BOOLEAN, arrived \in BOOLEAN :
          /\ held' = IF stateful THEN held \cup {c} ELSE held
          /\ inbox' = IF stateful THEN inbox ELSE [inbox EXCEPT ![c] = <<>>]
          /\ wire' = IF c = Agent /\ ~stateful /\ ~arrived THEN <<>> ELSE wire
    /\ UNCHANGED <<pageVars, callVars, posted, sent, seen, produced, rendered,
                   renders, lastGood, cycle, pending>>

\* The time for a stateful reconnect runs out: the hub closes the
\* connection and what was buffered for it is lost.
Forget(c) ==
    /\ c \in held
    /\ held' = held \ {c}
    /\ inbox' = [inbox EXCEPT ![c] = <<>>]
    /\ UNCHANGED <<pageVars, callVars, live, posted, sent, seen, produced,
                   rendered, renders, agentVars>>

\* The hub publishes the next status report that reached it.
RelayStatus ==
    /\ wire # <<>>
    /\ Room(inbox, live, held)
    /\ inbox' = Broadcast(inbox, live, held, Head(wire))
    /\ wire' = Tail(wire)
    /\ UNCHANGED <<pageVars, callVars, live, held, posted, sent, seen, produced,
                   rendered, renders, lastGood, cycle, pending>>

(***************************************************************************)
(* Eris.Client: a remote control.                                          *)
(***************************************************************************)
SeekTo == 120 * 1000
VolumeTo == Vol(1, 2)

Commands ==
    {[name |-> "back"], [name |-> "forward"], [name |-> "pause"],
     [name |-> "play"], [name |-> "seek", position |-> SeekTo],
     [name |-> "volume", vol |-> VolumeTo]}

\* A user taps a control: the remote control sends the command to the server,
\* POST /api/commands/..., each command in an HTTP request of its own.
PostCommand(c, cmd) ==
    /\ Budget(sent)
    /\ posted' = posted \cup {Msg("command", c, sent[c] + 1, cmd)}
    /\ sent' = [sent EXCEPT ![c] = @ + 1]
    /\ UNCHANGED <<pageVars, callVars, live, held, inbox, seen, produced,
                   rendered, renders, agentVars>>

\* The server publishes a command it was sent on the hub.  The requests are
\* independent of each other: it takes up any of those on their way.
SubmitCommand ==
    /\ \E m \in posted :
          /\ Room(inbox, live, held)
          /\ inbox' = Broadcast(inbox, live, held, m)
          /\ posted' = posted \ {m}
    /\ UNCHANGED <<pageVars, callVars, live, held, sent, seen, produced,
                   rendered, renders, agentVars>>

\* The status a remote control shows after a report: the report.
RenderMerged(old, report) ==
    IF old = null THEN report ELSE [report EXCEPT !.isPlaying = old.isPlaying]

Render(old, report) == report

ControllerReceive(c) ==
    /\ c \in live
    /\ inbox[c] # <<>>
    /\ LET m == Head(inbox[c])
       IN  /\ inbox' = [inbox EXCEPT ![c] = Tail(@)]
           /\ seen' = [seen EXCEPT ![c][m.from] = m.seq]
           /\ IF m.kind = "status"
              THEN /\ rendered' = [rendered EXCEPT ![c] = Render(@, m.body)]
                   /\ renders' = [renders EXCEPT ![c] = @ + 1]
              ELSE UNCHANGED <<rendered, renders>>
    /\ UNCHANGED <<pageVars, callVars, live, held, posted, sent, produced,
                   agentVars>>

(***************************************************************************)
(* eris-extension: the runtime around the adapter.  A handler runs to its  *)
(* end or to the point where it waits for the network: the adapter calls   *)
(* are synchronous, a reconnect is not, and what is sent is on its way     *)
(* (wire) until the hub publishes it.                                      *)
(***************************************************************************)
\* What a handler does when its reconnect attempt has come back (ok: it
\* worked), having made so many attempts: go on to the report, try again, or
\* drop the report.
EnsureConnectedRetrying(attempts, ok) ==
    IF ok THEN "connected" ELSE IF attempts < 2 THEN "again" ELSE "dropped"

EnsureConnected(attempts, ok) == IF ok THEN "connected" ELSE "dropped"

\* One status read; a read that fails stands in the last good snapshot.
ReadStatus(ids, cad, prior) ==
    LET r == status(ids, cad)
    IN  IF r.threw
        THEN [reads |-> 1, ok |-> FALSE, snapshot |-> prior, lastGood |-> prior]
        ELSE [reads |-> 1, ok |-> TRUE, snapshot |-> r.value,
              lastGood |-> r.value]

reportOnChange(ids, cad, prior) ==
    LET r == ReadStatus(ids, cad, prior)
    IN  [reads |-> r.reads, readOk |-> r.ok,
         snapshot |-> IF r.snapshot = prior THEN null ELSE r.snapshot,
         lastGood |-> r.lastGood]

\* A report over a connection: read the status and send it.  snapshot is
\* what is sent, null when there is nothing to send.
report(ids, cad, prior) ==
    LET r == ReadStatus(ids, cad, prior)
    IN  [reads |-> r.reads, readOk |-> r.ok, snapshot |-> r.snapshot,
         lastGood |-> r.lastGood]

\* A handler that does not come to its report.
NoReport(prior) ==
    [reads |-> 0, readOk |-> FALSE, snapshot |-> null, lastGood |-> prior]

\* The command handlers: each calls the adapter function of its name.
Apply(cmd, ids, cad, blocked, clamps) ==
    CASE cmd.name = "back" -> back(ids, cad, blocked, clamps)
      [] cmd.name = "forward" -> forward(ids, cad, blocked, clamps)
      [] cmd.name = "pause" -> pause(ids, cad, blocked)
      [] cmd.name = "play" -> play(ids, cad, blocked)
      [] cmd.name = "seek" -> seek(ids, cad, blocked, cmd.position, clamps)
      [] cmd.name = "volume" -> volume(ids, cad, blocked, cmd.vol)

\* Whether a command handler goes on to report: if the command succeeded.
ReportsAfterAlways(out) == TRUE

ReportsAfter(out) == ~out.threw

\* What a handler run did, where the runs are recorded.
Cycle(trigger, applied, wasConnected, attempts, connected, r, reports, body) ==
    IF cycle = Unrecorded THEN Unrecorded
    ELSE [trigger |-> trigger, applied |-> applied,
          wasConnected |-> wasConnected, attempts |-> attempts,
          connected |-> connected, reads |-> r.reads, readOk |-> r.readOk,
          prior |-> lastGood, reports |-> reports, body |-> body]

\* The extension sends a status report: it is on its way to the hub.
Send(snapshot) ==
    /\ Len(wire) < MaxWire
    /\ wire' = Append(wire, Msg("status", Agent, sent[Agent] + 1, snapshot))
    /\ sent' = [sent EXCEPT ![Agent] = @ + 1]
    /\ produced' = Append(produced, snapshot)

\* The end of a handler: r is its report.
Reported(trigger, applied, wasConnected, attempts, connected, r) ==
    LET sends == connected /\ r.snapshot # null
    IN  /\ sends => Budget(sent)
        /\ lastGood' = r.lastGood
        /\ IF sends THEN Send(r.snapshot) ELSE UNCHANGED <<wire, sent, produced>>
        /\ cycle' = Cycle(trigger, applied, wasConnected, attempts, connected, r,
                          sent'[Agent] - sent[Agent],
                          IF sends THEN r.snapshot ELSE null)

\* The poll timer fires (every 500 ms).  With a connection the handler reads
\* the status and sends it; without one it starts a reconnect attempt and
\* waits for it.
Tick ==
    IF Agent \in live
    THEN /\ Reported("tick", "none", TRUE, 0, TRUE,
                     report(sessionIds, cadmium, lastGood))
         /\ UNCHANGED <<pageVars, callVars, live, held, posted, inbox, seen,
                        rendered, renders, pending>>
    ELSE /\ Len(pending) < MaxPending
         /\ pending' = Append(pending, 1)
         /\ UNCHANGED <<pageVars, callVars, hubVars, lastGood, cycle, wire>>

\* The reconnect attempt of a waiting tick handler comes back.
ReconnectDone ==
    \E i \in 1 .. Len(pending), ok \in BOOLEAN :
        LET rest == SubSeq(pending, 1, i - 1)
                        \o SubSeq(pending, i + 1, Len(pending))
            next == EnsureConnected(pending[i], ok)
        IN  /\ UNCHANGED <<pageVars, callVars, posted, inbox, seen, rendered,
                           renders>>
            /\ CASE next = "connected" ->
                      /\ live' = live \cup {Agent}
                      /\ held' = held \ {Agent}
                      /\ pending' = rest
                      /\ Reported("tick", "none", FALSE, pending[i], TRUE,
                                  report(sessionIds, cadmium, lastGood))
                 [] next = "again" ->
                      /\ pending' = [pending EXCEPT ![i] = @ + 1]
                      /\ UNCHANGED <<live, held, sent, produced, lastGood, cycle,
                                     wire>>
                 [] next = "dropped" ->
                      /\ pending' = rest
                      /\ UNCHANGED <<live, held>>
                      /\ Reported("tick", "none", FALSE, pending[i], FALSE,
                                  NoReport(lastGood))

\* The extension handles the next message of its connection: a command is
\* applied and, if that succeeded, followed at once by a report; anything
\* else has no handler.
AgentReceive ==
    /\ Agent \in live
    /\ inbox[Agent] # <<>>
    /\ LET m == Head(inbox[Agent])
       IN  /\ inbox' = [inbox EXCEPT ![Agent] = Tail(@)]
           /\ seen' = [seen EXCEPT ![Agent][m.from] = m.seq]
           /\ IF m.kind = "command"
              THEN \E clamps \in BOOLEAN :
                     LET out == Apply(m.body, sessionIds, cadmium, blockedPlay,
                                      clamps)
                     IN  /\ InWindow(out.cadmium)
                         /\ cadmium' = out.cadmium
                         /\ blockedPlay' = out.blocked
                         /\ Reported("command",
                                     IF out.threw THEN "threw" ELSE "ok",
                                     TRUE, 0, TRUE,
                                     IF ReportsAfter(out)
                                     THEN report(sessionIds, out.cadmium, lastGood)
                                     ELSE NoReport(lastGood))
              ELSE UNCHANGED <<cadmium, blockedPlay, sent, produced, lastGood,
                               cycle, wire>>
    /\ UNCHANGED <<sessionIds, callVars, live, held, posted, rendered, renders,
                   pending>>

\* The Netflix page: a title starts playing, the tab leaves the player, the
\* page shows the blocked-play button.
SessionStarts ==
    /\ sessionIds = <<>>
    /\ sessionIds' = WatchPage
    /\ UNCHANGED <<cadmium, blockedPlay, callVars, hubVars, agentVars>>

SessionEnds ==
    /\ sessionIds # <<>>
    /\ sessionIds' = <<>>
    /\ UNCHANGED <<cadmium, blockedPlay, callVars, hubVars, agentVars>>

BlockedPlayShown ==
    /\ ~blockedPlay
    /\ blockedPlay' = TRUE
    /\ UNCHANGED <<sessionIds, cadmium, callVars, hubVars, agentVars>>

\* The extension starts in a tab whose player is not there yet; the remote
\* control "c1" sends its commands over HTTP and has no hub connection.  Its
\* commands here are back, pause, play and volume.
AgentCommands ==
    {c \in Commands : c.name \in {"back", "pause", "play", "volume"}}

InitAgent ==
    /\ sessionIds = <<>>
    /\ cadmium = [time |-> 45 * 1000, duration |-> Duration, playing |-> FALSE,
                  vol |-> Vol(1, 1), movieId |-> 2]
    /\ blockedPlay = FALSE
    /\ ret = NoCall
    /\ prev = NoCall
    /\ NoRelay
    /\ cycle = NoCycle

NextAgent ==
    \/ Connect(Agent)
    \/ Disconnect(Agent)
    \/ Forget(Agent)
    \/ \E cmd \in AgentCommands : posted = {} /\ PostCommand("c1", cmd)
    \/ SubmitCommand
    \/ RelayStatus
    \/ AgentReceive
    \/ Tick
    \/ ReconnectDone
    \/ SessionStarts
    \/ SessionEnds
    \/ BlockedPlayShown

SpecAgent == InitAgent /\ [][NextAgent]_vars

(***************************************************************************)
(* The hub with all its clients: the extension in a tab that plays a       *)
(* title, and a remote control that is connected to the hub and sends      *)
(* pause.  Any of them connects and drops; the extension's handlers are    *)
(* those above, their runs not recorded.                                   *)
(***************************************************************************)
HubCommands == {c \in Commands : c.name = "pause"}

Init ==
    /\ sessionIds = <<"watch-1">>
    /\ cadmium = [time |-> 45 * 1000, duration |-> Duration, playing |-> TRUE,
                  vol |-> Vol(1, 1), movieId |-> 1]
    /\ blockedPlay = FALSE
    /\ ret = NoCall
    /\ prev = NoCall
    /\ NoRelay
    /\ cycle = Unrecorded

Next ==
    \/ \E c \in Connections : Connect(c)
    \/ \E c \in Connections : Disconnect(c)
    \/ \E c \in Connections : Forget(c)
    \/ \E c \in Controllers, cmd \in HubCommands : PostCommand(c, cmd)
    \/ SubmitCommand
    \/ RelayStatus
    \/ \E c \in Controllers : ControllerReceive(c)
    \/ AgentReceive
    \/ Tick
    \/ ReconnectDone

Spec == Init /\ [][Next]_vars

\* How many copies of message m a queue holds.
Copies(q, m) == Cardinality({i \in 1 .. Len(q) : q[i] = m})

\* A step in which the hub publishes command m, one in which connection r is
\* sent exactly one copy of m, one in which r receives m (its handler takes
\* it), and one after which the hub has no connection for r: the connection
\* is lost with what was on its way.
Publishes(m) == m \in posted /\ m \notin posted'

OneCopy(r, m) ==
    /\ Copies(inbox[r], m) = 0
    /\ Copies(inbox'[r], m) = 1
    /\ Len(inbox'[r]) = Len(inbox[r]) + 1

Receives(r, m) ==
    /\ r \in live
    /\ inbox[r] # <<>>
    /\ Head(inbox[r]) = m
    /\ inbox'[r] = Tail(inbox[r])
    /\ seen'[r][m.from] = m.seq

Drops(r) == r \notin live' \cup held' /\ inbox'[r] = <<>>

\* The copies of commands that leave r's inbox in a step.
Leaving(r) ==
    {inbox[r][i] : i \in {j \in 1 .. Len(inbox[r]) :
                            /\ inbox[r][j].kind = "command"
                            /\ Copies(inbox'[r], inbox[r][j]) = 0}}

NumbersFrom(q, from) ==
    LET own == SelectSeq(q, LAMBDA m : m.from = from)
    IN  [i \in 1 .. Len(own) |-> own[i].seq]

Ascending(numbers) ==
    \A i \in 1 .. Len(numbers) : \A j \in 1 .. Len(numbers) :
        i < j => numbers[i] < numbers[j]

\* What is on its way to a recipient from sender s is in sending order and
\* newer than what the recipient has received from s.
Fifo(s) ==
    \A r \in Connections :
        /\ Ascending(NumbersFrom(inbox[r], s) \o NumbersFrom(wire, s))
        /\ \A i \in 1 .. Len(inbox[r]) :
              inbox[r][i].from = s => inbox[r][i].seq > seen[r][s]

SnapshotReplaces ==
    \A c \in Controllers :
        rendered[c] = IF renders[c] = 0 THEN null
                      ELSE produced[seen[c][Agent]]

SnapshotReplacesWitness ==
    \E c \in Controllers :
        /\ renders[c] = 2
        /\ seen[c][Agent] = 2
        /\ produced[1] # produced[2]
        /\ produced[1].isPlaying # produced[2].isPlaying
        /\ rendered[c] = produced[2]

(***************************************************************************)
(* C2.  A report that finds the transport down makes exactly one attempt   *)
(* to reconnect; if the attempt fails nothing is sent in that run, nothing *)
(* is kept for later (a run sends at most one report), and the next tick   *)
(* makes one attempt again.  A report that finds the transport up makes no *)
(* attempt.                                                                *)
(***************************************************************************)
ReconnectOnceBeforeReport ==
    /\ \A i \in 1 .. Len(pending) : pending[i] = 1
    /\ cycle.trigger # "none" =>
          /\ cycle.attempts = IF cycle.wasConnected THEN 0 ELSE 1
          /\ cycle.reports \in {0, 1}
          /\ (~cycle.wasConnected /\ ~cycle.connected) =>
                /\ cycle.reports = 0
                /\ cycle.body = null

ReconnectOnceBeforeReportWitness ==
    /\ cycle.trigger = "tick"
    /\ ~cycle.wasConnected /\ cycle.attempts = 1 /\ ~cycle.connected
    /\ cycle.reports = 0
    /\ lastGood # null
    /\ wire = <<>>
    /\ pending = <<1>>

(***************************************************************************)
(* C3 (as claimed).  Every command the extension receives is followed by   *)
(* exactly one status read and one report, whether the adapter call        *)
(* succeeded or threw.                                                     *)
(***************************************************************************)
CommandAlwaysReports ==
    cycle.trigger = "command" => (cycle.reads = 1 /\ cycle.reports = 1)

(***************************************************************************)
(* C3 (amended).  A command whose adapter call succeeds is followed by     *)
(* exactly one status read and, when there is a snapshot to send (the read *)
(* succeeded or an earlier one had), exactly one report; a command whose   *)
(* adapter call throws is followed by no status read and no report.        *)
(***************************************************************************)
SuccessfulCommandReports ==
    cycle.trigger = "command" =>
        /\ cycle.applied = "ok" =>
              /\ cycle.reads = 1
              /\ cycle.reports = IF cycle.readOk \/ cycle.prior # null
                                 THEN 1 ELSE 0
        /\ cycle.applied = "threw" => (cycle.reads = 0 /\ cycle.reports = 0)

SuccessfulCommandReportsWitness ==
    /\ cycle.trigger = "command"
    /\ cycle.applied = "ok"
    /\ cycle.reads = 1 /\ cycle.readOk /\ cycle.reports = 1
    /\ cycle.body = lastGood
    /\ cycle.body # cycle.prior

(***************************************************************************)
(* C5.  A status read that fails is answered with the last snapshot read   *)
(* successfully: that snapshot is what is reported, and nothing but a      *)
(* complete PlaybackStatus is ever sent or published.                      *)
(***************************************************************************)
StaleOnFailedRead ==
    /\ \A c \in Connections :
          \A i \in 1 .. Len(inbox[c]) :
              inbox[c][i].kind = "status" =>
                  DOMAIN inbox[c][i].body = StatusFields
    /\ \A i \in 1 .. Len(wire) : DOMAIN wire[i].body = StatusFields
    /\ \A i \in 1 .. Len(produced) : DOMAIN produced[i] = StatusFields
    /\ lastGood # null => DOMAIN lastGood = StatusFields
    /\ (cycle.reads = 1 /\ ~cycle.readOk) =>
          /\ lastGood = cycle.prior
          /\ cycle.prior # null => (cycle.reports = 1 /\ cycle.body = cycle.prior)
          /\ cycle.prior = null => cycle.reports = 0

StaleOnFailedReadWitness ==
    /\ cycle.reads = 1 /\ ~cycle.readOk
    /\ cycle.prior # null
    /\ cycle.reports = 1
    /\ cycle.body = cycle.prior
    /\ \E i \in 1 .. Len(inbox[Agent]) : inbox[Agent][i].body = cycle.prior

(***************************************************************************)
(* C7 (as claimed).  While the extension is connected, every firing of the *)
(* poll timer results in one status read and one report.                   *)
(***************************************************************************)
TickAlwaysReports ==
    (cycle.trigger = "tick" /\ cycle.wasConnected) =>
        (cycle.reads = 1 /\ cycle.reports = 1)

(***************************************************************************)
(* C7 (amended).  While the extension is connected, every firing of the    *)
(* poll timer results in one status read and, when there is a snapshot to  *)
(* send (the read succeeded or an earlier one had), one report; this is so *)
(* whatever ran before the tick, a command's report included.              *)
(***************************************************************************)
TickReports ==
    (cycle.trigger = "tick" /\ cycle.wasConnected) =>
        /\ cycle.reads = 1
        /\ cycle.reports = IF cycle.readOk \/ cycle.prior # null THEN 1 ELSE 0

TickReportsWitness ==
    /\ cycle.trigger = "tick" /\ cycle.wasConnected
    /\ cycle.reads = 1 /\ cycle.readOk /\ cycle.reports = 1
    /\ cycle.body = cycle.prior
    /\ cycle.body.volume = 50
    /\ sent[Agent] = 2
    /\ seen[Agent]["c1"] = 1

====
